---- MODULE Spec2Model ----
(***************************************************************************)
(* Character n-gram language model of                                      *)
(* "Lyrics Generation/Lyrics_generation_using_an_n-gram_model.ipynb":      *)
(* normalize, train_lm, generate_letter and generate_text.                 *)
(*                                                                         *)
(* A Python str is a sequence of one-character strings.  A dict is a       *)
(* function whose DOMAIN is its key set.  A collections.Counter is the     *)
(* sequence of its (char, count) items in insertion order, which is the    *)
(* order Counter.most_common() starts from.  A float cnt/total is the      *)
(* reduced fraction <<num, den>>: two quotients of small integers are the  *)
(* same float exactly when they are the same fraction.                     *)
(***************************************************************************)
EXTENDS Integers, Sequences, FiniteSets, TLC

\* ---------------------------------------------------------------- bounds
MaxLen == 6
MaxN == 3
MaxLetters == 3

Alphabet == {"a", "c", "o"}
Sentinel == "~"
Space == " "

Texts == UNION {[1..k -> Alphabet] : k \in 0..MaxLen}
Orders == 0..MaxN
GenOrders == 1..MaxN
Lengths == 0..MaxLetters
\* the histories generate_letter is called with directly
Contexts == UNION {[1..k -> Alphabet \cup {Sentinel}] : k \in 0..2}

\* ------------------------------------------------------------ arithmetic
RECURSIVE Gcd(_, _)
Gcd(a, b) == IF b = 0 THEN a ELSE Gcd(b, a % b)

\* cnt/total
Div(cnt, total) == <<cnt \div Gcd(cnt, total), total \div Gcd(cnt, total)>>

RatAdd(p, q) == Div(p[1] * q[2] + q[1] * p[2], p[2] * q[2])

\* ------------------------------------------------------------- normalize
\* counter[char] += 1 on a Counter: a new key goes last
CounterIncr(counter, char) ==
    IF \E k \in 1..Len(counter) : counter[k][1] = char
    THEN [k \in 1..Len(counter) |->
             IF counter[k][1] = char
             THEN <<char, counter[k][2] + 1>>
             ELSE counter[k]]
    ELSE Append(counter, <<char, 1>>)

\* sum(counter.values())
RECURSIVE SumValues(_)
SumValues(counter) ==
    IF counter = <<>> THEN 0
    ELSE counter[1][2] + SumValues(Tail(counter))

\* one insertion of the stable descending sort: item goes behind every
\* item whose count is at least its own
RECURSIVE InsertSorted(_, _)
InsertSortedTiesFirst(sorted, item) ==
    IF sorted = <<>> THEN <<item>>
    ELSE IF sorted[1][2] > item[2]
         THEN <<sorted[1]>> \o InsertSorted(Tail(sorted), item)
         ELSE <<item>> \o sorted
InsertSorted(sorted, item) ==
    IF sorted = <<>> THEN <<item>>
    ELSE IF sorted[1][2] >= item[2]
         THEN <<sorted[1]>> \o InsertSorted(Tail(sorted), item)
         ELSE <<item>> \o sorted

\* counter.most_common(): sorted(items, key=count, reverse=True), stable
RECURSIVE SortFrom(_, _)
SortFrom(sorted, rest) ==
    IF rest = <<>> THEN sorted
    ELSE SortFrom(InsertSorted(sorted, rest[1]), Tail(rest))

most_common(counter) == SortFrom(<<>>, counter)

normalizeByLen(counter) ==
    [k \in 1..Len(counter) |->
        <<most_common(counter)[k][1],
          Div(most_common(counter)[k][2], Len(counter))>>]
normalize(counter) ==
    [k \in 1..Len(counter) |->
        <<most_common(counter)[k][1],
          Div(most_common(counter)[k][2], SumValues(counter))>>]

\* -------------------------------------------------------------- train_lm
EmptyDict == [h \in {} |-> <<>>]

\* history = "~"
InitialHistory == <<Sentinel>>

\* history[1:]
Slice1(s) == SubSeq(s, 2, Len(s))

\* slide history window to the right by one character
SlideEmptyUnigram(hist, char, order) ==
    IF order <= 1 THEN <<>> ELSE Slice1(hist) \o <<char>>
Slide(hist, char, order) ==
    IF order = 1 THEN <<char>> ELSE Slice1(hist) \o <<char>>

\* raw_lm[h][char] += 1 on a defaultdict(Counter)
RawIncr(raw, h, char) ==
    IF h \in DOMAIN raw
    THEN [raw EXCEPT ![h] = CounterIncr(@, char)]
    ELSE (h :> CounterIncr(<<>>, char)) @@ raw

\* {history : normalize(counter) for history, counter in raw_lm.items()}
Finalize(raw) == [h \in DOMAIN raw |-> normalize(raw[h])]

\* the whole of train_lm as a function of its arguments
RECURSIVE TrainLoop(_, _, _, _, _)
TrainLoop(txt, order, k, raw, hist) ==
    IF k > Len(txt) THEN Finalize(raw)
    ELSE TrainLoop(txt, order, k + 1,
                   RawIncr(raw, hist, txt[k]),
                   Slide(hist, txt[k], order))

train_lm(txt, order) == TrainLoop(txt, order, 1, EmptyDict, InitialHistory)

\* ------------------------------------------------------- generate_letter
NoError == "none"

\* `history in lm` on the dict train_lm returns: a lookup, no insertion
LookupInsertsDefault(model, hist) ==
    IF hist \in DOMAIN model THEN model ELSE (hist :> <<>>) @@ model
Lookup(model, hist) == model

\* unzip(lm[history])[0]
Letters(dist) == [k \in 1..Len(dist) |-> dist[k][1]]

\* the outcomes of generate_letter(lm, history): the letter returned,
\* whether np.random.choice was called, and the exception raised
generate_letter_unchecked(model, hist) ==
    IF hist \in DOMAIN model
    THEN {[ret |-> Letters(model[hist])[k], drew |-> TRUE, err |-> NoError] :
             k \in 1..Len(model[hist])}
    ELSE {[ret |-> "", drew |-> FALSE, err |-> "KeyError"]}
generate_letter(model, hist) ==
    IF ~(hist \in DOMAIN model)
    THEN {[ret |-> Sentinel, drew |-> FALSE, err |-> NoError]}
    ELSE {[ret |-> Letters(model[hist])[k], drew |-> TRUE, err |-> NoError] :
             k \in 1..Len(model[hist])}

\* " ".join(text)
RECURSIVE Join(_)
Join(list) ==
    IF Len(list) <= 1 THEN list
    ELSE <<list[1], Space>> \o Join(Tail(list))

\* ----------------------------------------------------------------- state
VARIABLES
    pc,        \* "train", "trained", "generate", "done", "called"
    text,      \* train_lm: text
    n,         \* train_lm: n
    i,         \* train_lm: index of the next char of the for loop
    raw_lm,    \* train_lm: raw_lm
    history,   \* train_lm: history
    lm,        \* the model train_lm returned
    gen_n,     \* generate_text: n
    nletters,  \* generate_text: nletters
    gen_hist,  \* generate_text: history
    gen_text,  \* generate_text: text
    result,    \* generate_text: the string returned
    call,      \* the latest generate_letter call and its outcome
    draws,     \* number of np.random.choice calls so far
    err        \* the exception that ended the run, if any

vars == <<pc, text, n, i, raw_lm, history, lm, gen_n, nletters, gen_hist,
          gen_text, result, call, draws, err>>

NoCall == [made |-> FALSE, h |-> <<>>, ret |-> "", drew |-> FALSE,
           err |-> NoError]

Init ==
    /\ text \in Texts
    /\ n \in Orders
    /\ pc = "train"
    /\ i = 1
    /\ raw_lm = EmptyDict
    /\ history = InitialHistory
    /\ lm = EmptyDict
    /\ gen_n = 0
    /\ nletters = 0
    /\ gen_hist = <<>>
    /\ gen_text = <<>>
    /\ result = <<>>
    /\ call = NoCall
    /\ draws = 0
    /\ err = NoError

\* one iteration of `for char in text`
TrainIter ==
    /\ pc = "train"
    /\ i <= Len(text)
    /\ raw_lm' = RawIncr(raw_lm, history, text[i])
    /\ history' = Slide(history, text[i], n)
    /\ i' = i + 1
    /\ UNCHANGED <<pc, text, n, lm, gen_n, nletters, gen_hist, gen_text,
                   result, call, draws, err>>

\* the loop is over: build lm and return it
TrainReturn ==
    /\ pc = "train"
    /\ i > Len(text)
    /\ lm' = Finalize(raw_lm)
    /\ pc' = "trained"
    /\ UNCHANGED <<text, n, i, raw_lm, history, gen_n, nletters, gen_hist,
                   gen_text, result, call, draws, err>>

\* a direct call generate_letter(lm, h)
CallGenerateLetter ==
    /\ pc = "trained"
    /\ \E h \in Contexts :
         \E o \in generate_letter(lm, h) :
            /\ call' = [made |-> TRUE, h |-> h, ret |-> o.ret,
                        drew |-> o.drew, err |-> o.err]
            /\ draws' = IF o.drew THEN draws + 1 ELSE draws
            /\ err' = o.err
            /\ lm' = Lookup(lm, h)
    /\ pc' = "called"
    /\ UNCHANGED <<text, n, i, raw_lm, history, gen_n, nletters, gen_hist,
                   gen_text, result>>

\* generate_text(lm, gn, len) is entered
GenerateStart ==
    /\ pc = "trained"
    /\ \E gn \in GenOrders, len \in Lengths :
         /\ gen_n' = gn
         /\ nletters' = len
    /\ gen_hist' = InitialHistory
    /\ gen_text' = <<>>
    /\ pc' = "generate"
    /\ UNCHANGED <<text, n, i, raw_lm, history, lm, result, call, draws, err>>

\* one iteration of `for i in range(nletters)`
GenerateIter ==
    /\ pc = "generate"
    /\ Len(gen_text) < nletters
    /\ \E o \in generate_letter(lm, gen_hist) :
         /\ call' = [made |-> TRUE, h |-> gen_hist, ret |-> o.ret,
                     drew |-> o.drew, err |-> o.err]
         /\ draws' = IF o.drew THEN draws + 1 ELSE draws
         /\ lm' = Lookup(lm, gen_hist)
         /\ IF o.err = NoError
            THEN /\ gen_text' = Append(gen_text, o.ret)
                 /\ gen_hist' = Slide(gen_hist, o.ret, gen_n)
                 /\ UNCHANGED <<pc, err>>
            ELSE /\ err' = o.err
                 /\ pc' = "done"
                 /\ UNCHANGED <<gen_text, gen_hist>>
    /\ UNCHANGED <<text, n, i, raw_lm, history, gen_n, nletters, result>>

\* the loop is over: join and return
GenerateReturn ==
    /\ pc = "generate"
    /\ Len(gen_text) >= nletters
    /\ result' = Join(gen_text)
    /\ pc' = "done"
    /\ UNCHANGED <<text, n, i, raw_lm, history, lm, gen_n, nletters, gen_hist,
                   gen_text, call, draws, err>>

Next ==
    \/ TrainIter
    \/ TrainReturn
    \/ CallGenerateLetter
    \/ GenerateStart
    \/ GenerateIter
    \/ GenerateReturn

Spec == Init /\ [][Next]_vars

\* ------------------------------------------- what the text says of a model
\* the m characters in front of position k of txt, the text being preceded
\* by sentinel padding
RECURSIVE Before(_, _, _)
Before(txt, k, m) ==
    IF m = 0 THEN <<>>
    ELSE Before(txt, k - 1, m - 1)
             \o <<IF k - 1 >= 1 THEN txt[k - 1] ELSE Sentinel>>

\* the positions of txt that follow an occurrence of context h
Followers(txt, h) == {k \in 1..Len(txt) : Before(txt, k, Len(h)) = h}

\* number of times c follows h in txt
FollowCount(txt, h, c) == Cardinality({k \in Followers(txt, h) : txt[k] = c})

\* the first position at which c follows h in txt
FirstSeen(txt, h, c) ==
    CHOOSE k \in Followers(txt, h) :
        /\ txt[k] = c
        /\ \A l \in Followers(txt, h) : txt[l] = c => k <= l

RECURSIVE SumProbs(_)
SumProbs(dist) ==
    IF dist = <<>> THEN <<0, 1>>
    ELSE RatAdd(dist[1][2], SumProbs(Tail(dist)))

Trained == pc # "train"

Cacao == <<"c", "a", "c", "a", "o">>

One == <<1, 1>>
Half == <<1, 2>>

\* the dict of the train_lm docstring example
CacaoModel ==
    (<<"a", "c">> :> << <<"a", One>> >>)
    @@ (<<"c", "a">> :> << <<"c", Half>>, <<"o", Half>> >>)
    @@ (<<Sentinel, "c">> :> << <<"a", One>> >>)
    @@ (<<Sentinel, Sentinel>> :> << <<"c", One>> >>)

\* ---------------------------------------------------------------- claims

\* C1: train_lm("cacao", 3) returns exactly the four entries "ac", "ca",
\* "~c" and "~~" of the docstring example, and no others.
C1_CacaoExample ==
    (Trained /\ text = Cacao /\ n = 3) => lm = CacaoModel

\* C2: generate_text returns a sequence of exactly nletters elements, each
\* a sampled character, raising no error; for the empty model the result is
\* exactly nletters sentinel characters.
C2_ReturnsExactlyLengthSampled ==
    pc = "done" =>
        /\ err = NoError
        /\ Len(result) = nletters
        /\ result = gen_text
        /\ lm = EmptyDict => result = [k \in 1..nletters |-> Sentinel]

\* C3: for n >= 1 and every context key h of the trained model, the
\* characters of h's distribution are exactly the characters that follow an
\* occurrence of h in the text, each listed once; the probability of c is
\* (times c follows h) / (times any character follows h); and the
\* probabilities of h sum to 1.
C3_EmpiricalDistribution ==
    (pc = "trained" /\ n >= 1) =>
        \A h \in DOMAIN lm :
            /\ {lm[h][k][1] : k \in 1..Len(lm[h])}
                   = {text[k] : k \in Followers(text, h)}
            /\ \A k, l \in 1..Len(lm[h]) :
                   lm[h][k][1] = lm[h][l][1] => k = l
            /\ \A k \in 1..Len(lm[h]) :
                   lm[h][k][2] = Div(FollowCount(text, h, lm[h][k][1]),
                                     Cardinality(Followers(text, h)))
            /\ SumProbs(lm[h]) = One

\* a trained context followed by two characters with different counts
C3_Witness ==
    /\ pc = "trained"
    /\ n >= 1
    /\ \E h \in DOMAIN lm :
          /\ Len(lm[h]) >= 2
          /\ lm[h][1][2] # lm[h][2][2]

\* C4 as written: train_lm(text, n) with n < 1 fails at once with an
\* invalid-argument error, for every text, and returns no model.
C4_RejectsOrderBelowOne ==
    n < 1 =>
        \/ pc = "train" /\ i = 1 /\ raw_lm = EmptyDict
        \/ err = "InvalidArgument"

\* C4 as amended: train_lm(text, n) with n < 1 raises no error; it runs
\* over the whole text and returns the model that train_lm(text, 2) returns,
\* whose keys are single characters.
C4_OrderBelowOneTrainsAsBigram ==
    (pc = "trained" /\ n < 1) =>
        /\ err = NoError
        /\ i = Len(text) + 1
        /\ lm = train_lm(text, 2)
        /\ \A h \in DOMAIN lm : Len(h) = 1

\* a model returned for n < 1 from a text of several contexts
C4_Witness ==
    /\ pc = "trained"
    /\ n < 1
    /\ Cardinality(DOMAIN lm) >= 3

\* C5: generate_letter(lm, h) with h not a key of lm returns the sentinel,
\* without drawing from the random source and without raising an error.
C5_MissReturnsSentinel ==
    (call.made /\ ~(call.h \in DOMAIN lm)) =>
        /\ call.ret = Sentinel
        /\ ~call.drew
        /\ call.err = NoError
        /\ err = NoError

\* a miss on a model that has keys
C5_Witness ==
    /\ call.made
    /\ ~(call.h \in DOMAIN lm)
    /\ DOMAIN lm # {}
    /\ draws >= 1

\* C6: for n >= 2 the rolling context of train_lm starts as n-1 sentinels
\* and has length n-1 at every iteration, so every key of the returned
\* model has length n-1.
C6_ContextLength ==
    n >= 2 =>
        /\ (pc = "train" /\ i = 1) => history = [k \in 1..(n - 1) |-> Sentinel]
        /\ pc = "train" => Len(history) = n - 1
        /\ \A h \in DOMAIN raw_lm : Len(h) = n - 1
        /\ \A h \in DOMAIN lm : Len(h) = n - 1

\* C7: for a corpus of one character repeated (it occurs at least twice)
\* trained with n = 2, generate_text with n = 2 returns a sequence whose
\* every element is that character: no sentinel and no other character
\* appears in the output.
C7_RepeatedCharacterOnly ==
    (/\ pc = "done"
     /\ n = 2
     /\ gen_n = 2
     /\ Len(text) >= 2
     /\ \A k \in 1..Len(text) : text[k] = text[1])
    => \A k \in 1..Len(result) : result[k] = text[1]

\* C8: in every distribution of a trained model the pairs are in order of
\* non-increasing count, and characters with equal counts are in the order
\* in which they were first met after that context in the text.
C8_DescendingStable ==
    pc = "trained" =>
        \A h \in DOMAIN lm :
            \A k, l \in 1..Len(lm[h]) :
                k < l =>
                    \/ FollowCount(text, h, lm[h][k][1])
                           > FollowCount(text, h, lm[h][l][1])
                    \/ /\ FollowCount(text, h, lm[h][k][1])
                             = FollowCount(text, h, lm[h][l][1])
                       /\ FirstSeen(text, h, lm[h][k][1])
                             < FirstSeen(text, h, lm[h][l][1])

\* a context with a strict descent and a tie: three characters, the first
\* more frequent than the other two although met after the second, and the
\* other two equally frequent
C8_Witness ==
    /\ pc = "trained"
    /\ \E h \in DOMAIN lm :
          /\ Len(lm[h]) >= 3
          /\ lm[h][1][2] # lm[h][2][2]
          /\ lm[h][2][2] = lm[h][3][2]
          /\ FirstSeen(text, h, lm[h][1][1]) > FirstSeen(text, h, lm[h][2][1])

\* C9: generation never modifies the model: over every step of
\* generate_text and every generate_letter call, hit or miss, lm keeps its
\* keys and the distribution of each key.
C9_ModelReadOnly ==
    [][Trained => lm' = lm]_vars

\* a finished generation that had a hit and ended on a miss
C9_Witness ==
    /\ pc = "done"
    /\ draws >= 1
    /\ call.made
    /\ ~(call.h \in DOMAIN lm)
    /\ Len(gen_text) >= 2

====
